---- MODULE Spec2Model ----
(***************************************************************************)
(* A model of image-resizer-rust: the dimension resolver, the resize step, *)
(* the format / path reconciliation and the save step of src/lib.rs, in    *)
(* the order src/main.rs (run) drives them.                                *)
(***************************************************************************)
EXTENDS Integers, Sequences, FiniteSets, TLC

VARIABLES pc, img, width, height, dims, resized_img, output_path, new_format,
          save_format, new_output, outcome, written, input, output, dirs,
          encoder, prompts, checked, calls

\* the arguments of determine_output_path and the directories that exist
cliVars == <<input, output, dirs>>

\* what the encoder did, the prompts printed, what the overwrite gate saw,
\* and the calls made so far
gateVars == <<encoder, prompts, checked, calls>>

vars == <<pc, img, width, height, dims, resized_img, output_path, new_format,
          save_format, new_output, outcome, written, cliVars, gateVars>>

(***************************************************************************)
(* Bounds of the model.                                                    *)
(***************************************************************************)
\* largest source side and largest requested side of the resolver runs
MaxSide == 13
\* largest source side and largest requested side of the pipeline runs
MaxDim == 2

None == <<>>
Some(x) == <<x>>
IsSome(o) == o # None
Unwrap(o) == o[1]
Opt(S) == {None} \cup {Some(x) : x \in S}

\* Result<T, E>, and a third outcome: the call panicked at a source line
Ok(v) == [kind |-> "Ok", val |-> v]
Err(e) == [kind |-> "Err", err |-> e]
Panic(l) == [kind |-> "Panic", at |-> l]
IsOk(r) == r.kind = "Ok"
IsErr(r) == r.kind = "Err"
IsPanic(r) == r.kind = "Panic"

(***************************************************************************)
(* f32 arithmetic. A finite non-negative f32 is m * 2^e with m < 2^24; the *)
(* model keeps m odd (or 0). Results are rounded to nearest, ties to even, *)
(* to 24 significant bits, as IEEE 754 binary32 does. The exponent range   *)
(* is not modelled: no value here comes near its ends.                     *)
(***************************************************************************)
Mantissa == 24
TwoTo23 == 2 ^ (Mantissa - 1)
TwoTo24 == 2 ^ Mantissa

\* u32::MAX does not fit the checker's integers; it is kept as a token.
U32_MAX == "u32::MAX"

F32Zero == [k |-> "fin", m |-> 0, e |-> 0]
F32Inf == [k |-> "inf"]
F32NaN == [k |-> "nan"]

RECURSIVE Reduce(_, _)
Reduce(m, e) ==
    IF m = 0 THEN F32Zero
    ELSE IF m % 2 = 0 THEN Reduce(m \div 2, e + 1)
    ELSE [k |-> "fin", m |-> m, e |-> e]

RECURSIVE DropBits(_)
DropBits(p) == IF p < TwoTo24 THEN 0 ELSE 1 + DropBits(p \div 2)

\* the f32 nearest to p * 2^e (ties to even)
Round24(p, e) ==
    LET k == DropBits(p) IN
    IF k = 0 THEN Reduce(p, e)
    ELSE LET q == p \div (2 ^ k)
             r == p % (2 ^ k)
             half == 2 ^ (k - 1)
             up == r > half \/ (r = half /\ q % 2 = 1)
         IN Reduce(IF up THEN q + 1 ELSE q, e + k)

\* `n as f32`
U32ToF32(n) == Round24(n, 0)

RECURSIVE DivShift(_, _, _)
DivShift(a, b, t) ==
    IF a \div b >= TwoTo23 THEN <<a, t>> ELSE DivShift(a * 2, b, t + 1)

\* x / y on f32
F32Div(x, y) ==
    IF x.k = "nan" \/ y.k = "nan" THEN F32NaN
    ELSE IF x.k = "inf" THEN (IF y.k = "inf" THEN F32NaN ELSE F32Inf)
    ELSE IF y.k = "inf" THEN F32Zero
    ELSE IF y.m = 0 THEN (IF x.m = 0 THEN F32NaN ELSE F32Inf)
    ELSE IF x.m = 0 THEN F32Zero
    ELSE LET at == DivShift(x.m, y.m, 0)
             q == at[1] \div y.m
             r == at[1] % y.m
             up == 2 * r > y.m \/ (2 * r = y.m /\ q % 2 = 1)
         IN Reduce(IF up THEN q + 1 ELSE q, x.e - y.e - at[2])

\* x * y on f32
F32Mul(x, y) ==
    IF x.k = "nan" \/ y.k = "nan" THEN F32NaN
    ELSE IF x.k = "inf" THEN (IF y.m = 0 THEN F32NaN ELSE F32Inf)
    ELSE IF y.k = "inf" THEN (IF x.m = 0 THEN F32NaN ELSE F32Inf)
    ELSE Round24(x.m * y.m, x.e + y.e)

\* `x as u32`: truncation toward zero, saturating; NaN gives 0
F32ToU32(x) ==
    IF x.k = "nan" THEN 0
    ELSE IF x.k = "inf" THEN U32_MAX
    ELSE IF x.e >= 0 THEN x.m * (2 ^ x.e)
    ELSE IF 0 - x.e >= Mantissa THEN 0
    ELSE x.m \div (2 ^ (0 - x.e))

(***************************************************************************)
(* The dimension resolver.                                                 *)
(***************************************************************************)
MissingDimension == "Error: At least one of width or height must be specified"

\* faulty variant: a request for both sides is bent to the source's aspect ratio
determine_new_dimensions_KeepAspect(image, w, h) ==
    IF IsSome(w) THEN
        LET aspect_ratio == F32Div(U32ToF32(image.height), U32ToF32(image.width))
        IN Ok(<<Unwrap(w), F32ToU32(F32Mul(U32ToF32(Unwrap(w)), aspect_ratio))>>)
    ELSE IF IsSome(h) THEN
        LET aspect_ratio == F32Div(U32ToF32(image.width), U32ToF32(image.height))
        IN Ok(<<F32ToU32(F32Mul(U32ToF32(Unwrap(h)), aspect_ratio)), Unwrap(h)>>)
    ELSE Err(MissingDimension)

determine_new_dimensions(image, w, h) ==
    IF IsSome(w) /\ IsSome(h) THEN Ok(<<Unwrap(w), Unwrap(h)>>)
    ELSE IF IsSome(w) THEN
        LET aspect_ratio == F32Div(U32ToF32(image.height), U32ToF32(image.width))
        IN Ok(<<Unwrap(w), F32ToU32(F32Mul(U32ToF32(Unwrap(w)), aspect_ratio))>>)
    ELSE IF IsSome(h) THEN
        LET aspect_ratio == F32Div(U32ToF32(image.width), U32ToF32(image.height))
        IN Ok(<<F32ToU32(F32Mul(U32ToF32(Unwrap(h)), aspect_ratio)), Unwrap(h)>>)
    ELSE Err(MissingDimension)

(***************************************************************************)
(* Strings, image formats and paths.                                       *)
(***************************************************************************)
\* str::to_lowercase on the strings the model uses
to_lowercase(s) ==
    CASE s = "JPG" -> "jpg"
      [] s = "JPEG" -> "jpeg"
      [] s = "Jpeg" -> "jpeg"
      [] s = "PNG" -> "png"
      [] s = "Png" -> "png"
      [] s = "GIF" -> "gif"
      [] s = "Y" -> "y"
      [] s = "N" -> "n"
      [] OTHER -> s

UnsupportedFormat == "Unsoported image format"
UnsupportedConversion == "Unsoported conversion to image format"
EmptyBuffer == "Failed to save image: Empty image buffer"
IncompatibleExtension == "Output file extension is not compatible with the specified format"
NoExtension == "Output path has no file extension"
EncodeFailure == "Failed to save image"
ResizeFailure == "resize failed"
Cancelled == "already exists. Operation cancelled!"
PathCheckFailed == "Error checking path"

string_to_image_format(format) ==
    LET f == to_lowercase(format) IN
    IF f = "jpeg" \/ f = "jpg" THEN Ok("Jpeg")
    ELSE IF f = "png" THEN Ok("Png")
    ELSE Err(UnsupportedFormat)

\* faulty variant: an unsupported format is coerced to JPEG
validate_new_image_format_Coerce(format) ==
    IF format = "Png" \/ format = "Jpeg" THEN Ok(format) ELSE Ok("Jpeg")

validate_new_image_format(format) ==
    IF format = "Png" \/ format = "Jpeg" THEN Ok(format)
    ELSE Err(UnsupportedConversion)

\* ImageFormat::extensions_str()[0]
extensions_str_0(format) ==
    CASE format = "Jpeg" -> "jpg"
      [] format = "Png" -> "png"
      [] format = "Gif" -> "gif"
      [] format = "Bmp" -> "bmp"
      [] format = "Ico" -> "ico"
      [] format = "WebP" -> "webp"
      [] format = "Tiff" -> "tiff"

\* A path is its parent directory and its file name. The parent is the
\* sequence of its components ("/" first when the path is absolute, <<>> for
\* the empty parent); the file name is the sequence of its dot-separated
\* parts (<<>>: the path has no file name, as "/" or ".." has none).
PathOf(parent, name) == [parent |-> parent, name |-> name]

\* Path::extension: the part after the last dot, unless the only dot leads
extension(path) ==
    LET n == Len(path.name) IN
    IF n < 2 THEN None
    ELSE IF n = 2 /\ path.name[1] = "" THEN None
    ELSE Some(path.name[n])

\* Path::file_stem as the parts before the extension
file_stem(path) ==
    IF IsSome(extension(path))
    THEN SubSeq(path.name, 1, Len(path.name) - 1)
    ELSE path.name

\* faulty variant: the extension is added after the one the path has
with_extension_Appended(path, ext) ==
    IF path.name = <<>> THEN path
    ELSE IF ext = "" THEN PathOf(path.parent, file_stem(path))
    ELSE PathOf(path.parent, Append(path.name, ext))

\* Path::with_extension: a path with no file name is returned unchanged
with_extension(path, ext) ==
    IF path.name = <<>> THEN path
    ELSE IF ext = "" THEN PathOf(path.parent, file_stem(path))
    ELSE PathOf(path.parent, Append(file_stem(path), ext))

\* ImageFormat::from_path: by the extension, ASCII case-insensitively
from_path(path) ==
    IF ~IsSome(extension(path)) THEN Err("no extension")
    ELSE LET e == to_lowercase(Unwrap(extension(path))) IN
         CASE e \in {"jpg", "jpeg"} -> Ok("Jpeg")
           [] e = "png" -> Ok("Png")
           [] e = "gif" -> Ok("Gif")
           [] e = "bmp" -> Ok("Bmp")
           [] e = "ico" -> Ok("Ico")
           [] e = "webp" -> Ok("WebP")
           [] e \in {"tiff", "tif"} -> Ok("Tiff")
           [] OTHER -> Err("unknown extension")

(***************************************************************************)
(* Output path determination (src/cli.rs).                                 *)
(***************************************************************************)
DirectoryNotFound == "The given output directory cannot be found."
InvalidExtension == "You need to specify a valid extension, either jpeg, png or no extension."

\* the process's working directory
Cwd == <<"/", "cwd">>

\* directories that always exist, and directories that may exist
BaseDirs == {<<"/">>, <<"/", "a">>, <<"/", "a", "b">>, Cwd}
OptionalDirs == {<<"/", "tmp">>, <<"/", "a", "b", "sub">>, <<"/", "cwd", "sub">>}

\* Path::components: a "." that does not lead is dropped
RECURSIVE components(_)
components(d) ==
    IF Len(d) <= 1 THEN d
    ELSE IF d[Len(d)] = "." THEN components(SubSeq(d, 1, Len(d) - 1))
    ELSE Append(components(SubSeq(d, 1, Len(d) - 1)), d[Len(d)])

is_absolute_dir(d) == d # <<>> /\ d[1] = "/"

\* Path::is_absolute
is_absolute(path) == is_absolute_dir(path.parent)

\* Path::join of a directory and a path
join(dir, path) ==
    IF is_absolute(path) THEN path
    ELSE PathOf(components(IF path.parent # <<>> /\ path.parent[1] = "." /\ dir # <<>>
                           THEN dir \o Tail(path.parent)
                           ELSE dir \o path.parent),
                path.name)

\* Path::parent().unwrap_or(Path::new(""))
parent_or_empty(path) ==
    IF path.name # <<>> THEN path.parent
    ELSE IF Len(path.parent) <= 1 THEN <<>>
    ELSE SubSeq(path.parent, 1, Len(path.parent) - 1)

\* Path::file_stem().unwrap_or(OsStr::new("output"))
file_stem_or_output(path) ==
    IF path.name = <<>> THEN <<"output">> ELSE file_stem(path)

\* Path::is_dir: a relative directory is looked up from the working directory
is_dir(d, existing) ==
    IF d = <<>> THEN FALSE
    ELSE IF is_absolute_dir(d) THEN components(d) \in existing
    ELSE components(IF d[1] = "." THEN Cwd \o Tail(d) ELSE Cwd \o d) \in existing

\* faulty variant: the extension is validated before the directory
validate_output_path_ExtensionFirst(path, existing) ==
    LET parent == parent_or_empty(path)
        stem == file_stem_or_output(path)
        ext == IF IsSome(extension(path)) THEN Unwrap(extension(path)) ELSE ""
    IN IF ext \notin {"jpeg", "jpg", "png", ""} THEN Err(InvalidExtension)
       ELSE IF ~is_dir(parent, existing) /\ parent # <<>> THEN Err(DirectoryNotFound)
       ELSE Ok(with_extension(join(parent, PathOf(<<>>, stem)), ext))

validate_output_path(path, existing) ==
    LET parent == parent_or_empty(path)
        stem == file_stem_or_output(path)
        ext == IF IsSome(extension(path)) THEN Unwrap(extension(path)) ELSE ""
    IN IF ~is_dir(parent, existing) /\ parent # <<>> THEN Err(DirectoryNotFound)
       ELSE IF ext \in {"jpeg", "jpg", "png", ""}
       THEN Ok(with_extension(join(parent, PathOf(<<>>, stem)), ext))
       ELSE Err(InvalidExtension)

\* format!("{}_resized", stem)
resized_stem(stem) ==
    Append(SubSeq(stem, 1, Len(stem) - 1), stem[Len(stem)] \o "_resized")

determine_output_path(in, out, existing) ==
    LET parent == parent_or_empty(in)
        stem == file_stem_or_output(in)
        ext == IF IsSome(extension(in)) THEN Unwrap(extension(in)) ELSE "jpeg"
    IN IF IsSome(out) THEN
           LET validated_output == validate_output_path(Unwrap(out), existing) IN
           IF ~IsOk(validated_output) THEN validated_output
           ELSE LET path_new == IF IsSome(extension(validated_output.val))
                                THEN validated_output.val
                                ELSE with_extension(validated_output.val, ext)
                IN IF is_absolute(path_new) THEN Ok(path_new)
                   ELSE Ok(join(parent, path_new))
       ELSE Ok(with_extension(join(parent, PathOf(<<>>, resized_stem(stem))), ext))

(***************************************************************************)
(* Image buffers and magic-byte sniffing. A buffer is width * height RGBA  *)
(* pixels; the model keeps the leading bytes of the raw data, which are    *)
(* all guess_format reads.                                                 *)
(***************************************************************************)
PngSig == <<137, 80, 78, 71, 13, 10, 26, 10>>
JpegSig == <<255, 216, 255>>
Gif89aSig == <<71, 73, 70, 56, 57, 97>>
Gif87aSig == <<71, 73, 70, 56, 55, 97>>
BmpSig == <<66, 77>>
IcoSig == <<0, 0, 1, 0>>

MAGIC_BYTES ==
    << <<PngSig, "Png">>, <<JpegSig, "Jpeg">>, <<Gif89aSig, "Gif">>,
       <<Gif87aSig, "Gif">>, <<BmpSig, "Bmp">>, <<IcoSig, "Ico">> >>

starts_with(bytes, sig) ==
    Len(bytes) >= Len(sig) /\ SubSeq(bytes, 1, Len(sig)) = sig

\* image::guess_format: the first signature the bytes start with
guess_format(bytes) ==
    LET hits == {i \in 1..Len(MAGIC_BYTES) : starts_with(bytes, MAGIC_BYTES[i][1])} IN
    IF hits = {} THEN Err("unknown signature")
    ELSE Ok(MAGIC_BYTES[CHOOSE i \in hits : \A j \in hits : i <= j][2])

Min(a, b) == IF a <= b THEN a ELSE b

\* the buffer of w x h pixels whose raw data starts as `lead` does
ImageBuffer(w, h, lead) ==
    [width |-> w, height |-> h, raw |-> SubSeq(lead, 1, Min(Len(lead), 4 * w * h))]

(***************************************************************************)
(* Format and path reconciliation.                                         *)
(***************************************************************************)
\* faulty variant: the path's extension is consulted before the bytes
infer_format_PathFirst(image, path) ==
    LET p == IF IsSome(path) THEN from_path(Unwrap(path)) ELSE Err("no path")
        g == guess_format(image.raw)
    IN IF IsOk(p) THEN p.val ELSE IF IsOk(g) THEN g.val ELSE "Jpeg"

\* faulty variant: an extension that is no format's does not fall back to JPEG
infer_format_NoFallback(image, path) ==
    LET g == guess_format(image.raw) IN
    IF IsOk(g) THEN g.val
    ELSE IF IsSome(path) THEN
        LET p == from_path(Unwrap(path)) IN
        IF IsOk(p) THEN p.val ELSE "Unknown"
    ELSE "Jpeg"

infer_format(image, path) ==
    LET g == guess_format(image.raw) IN
    IF IsOk(g) THEN g.val
    ELSE IF IsSome(path) THEN
        LET p == from_path(Unwrap(path)) IN
        IF IsOk(p) THEN p.val ELSE "Jpeg"
    ELSE "Jpeg"

\* faulty variant: a jpg / jpeg extension is kept whatever the format
determine_extension_KeepJpg(path, format) ==
    LET ext == extension(path) IN
    IF IsSome(ext) /\ (Unwrap(ext) = "jpg" \/ Unwrap(ext) = "jpeg")
    THEN Unwrap(ext)
    ELSE extensions_str_0(format)

determine_extension(path, format) ==
    LET ext == extension(path) IN
    IF IsSome(ext) /\ (Unwrap(ext) = "jpg" \/ Unwrap(ext) = "jpeg") /\ format = "Jpeg"
    THEN Unwrap(ext)
    ELSE extensions_str_0(format)

\* faulty variant: a recognised extension of the path beats the explicit format
determine_save_format_and_path_PathWins(image, path, format) ==
    LET byPath == from_path(path)
        sf == IF IsOk(byPath) /\ IsOk(validate_new_image_format(byPath.val))
              THEN byPath
              ELSE IF IsSome(format)
              THEN string_to_image_format(Unwrap(format))
              ELSE validate_new_image_format(infer_format(image, Some(path)))
    IN IF ~IsOk(sf) THEN sf
       ELSE Ok(<<sf.val, with_extension(path, determine_extension(path, sf.val))>>)

determine_save_format_and_path(image, path, format) ==
    LET sf == IF IsSome(format)
              THEN string_to_image_format(Unwrap(format))
              ELSE validate_new_image_format(infer_format(image, Some(path)))
    IN IF ~IsOk(sf) THEN sf
       ELSE Ok(<<sf.val, with_extension(path, determine_extension(path, sf.val))>>)

(***************************************************************************)
(* Resizing and saving.                                                    *)
(***************************************************************************)
\* faulty variant: the source's sides are unwrapped before the request is resolved
ImageContainer_new_SourceFirst(image, w, h) ==
    LET d == determine_new_dimensions(image, w, h) IN
    IF image.width = 0 THEN Panic("lib.rs:68")
    ELSE IF image.height = 0 THEN Panic("lib.rs:69")
    ELSE IF ~IsOk(d) THEN d
    ELSE IF d.val[1] = 0 THEN Panic("lib.rs:78")
    ELSE IF d.val[2] = 0 THEN Panic("lib.rs:79")
    ELSE Ok(d.val)

\* ImageContainer::new: the resolved dimensions, or where it stops
ImageContainer_new(image, w, h) ==
    LET d == determine_new_dimensions(image, w, h) IN
    IF ~IsOk(d) THEN d
    ELSE IF image.width = 0 THEN Panic("lib.rs:68")
    ELSE IF image.height = 0 THEN Panic("lib.rs:69")
    ELSE IF d.val[1] = 0 THEN Panic("lib.rs:78")
    ELSE IF d.val[2] = 0 THEN Panic("lib.rs:79")
    ELSE Ok(d.val)

\* resize_image; `lead` is how the resized raw data starts and `resized`
\* whether the external resizer succeeded
resize_image(image, w, h, lead, resized) ==
    LET c == ImageContainer_new(image, w, h) IN
    IF ~IsOk(c) THEN c
    ELSE IF ~resized THEN Err(ResizeFailure)
    ELSE Ok(ImageBuffer(c.val[1], c.val[2], lead))

\* faulty variant: the extension is looked at before the buffer's size
save_image_checks_ExtensionFirst(image, path, format) ==
    IF ~IsSome(extension(path)) THEN Err(NoExtension)
    ELSE LET ext_format == string_to_image_format(Unwrap(extension(path))) IN
         IF ~IsOk(ext_format) THEN ext_format
         ELSE IF ext_format.val # format THEN Err(IncompatibleExtension)
         ELSE IF image.width = 0 \/ image.height = 0 THEN Err(EmptyBuffer)
         ELSE Ok("()")

\* save_image up to the encoder: the checks on the buffer and the extension
save_image_checks(image, path, format) ==
    IF image.width = 0 \/ image.height = 0 THEN Err(EmptyBuffer)
    ELSE IF ~IsSome(extension(path)) THEN Err(NoExtension)
    ELSE LET ext_format == string_to_image_format(Unwrap(extension(path))) IN
         IF ~IsOk(ext_format) THEN ext_format
         ELSE IF ext_format.val # format THEN Err(IncompatibleExtension)
         ELSE Ok("()")

\* faulty variant: the reported sides are exchanged
save_image_Transposed(image, path, format, encoded) ==
    LET checks == save_image_checks(image, path, format) IN
    IF ~IsOk(checks) THEN checks
    ELSE IF ~encoded THEN Err(EncodeFailure)
    ELSE Ok([width |-> image.height, height |-> image.width,
             format |-> format, path |-> path])

\* save_image; `encoded` is whether the encoder's write succeeded
save_image(image, path, format, encoded) ==
    LET checks == save_image_checks(image, path, format) IN
    IF ~IsOk(checks) THEN checks
    ELSE IF ~encoded THEN Err(EncodeFailure)
    ELSE Ok([width |-> image.width, height |-> image.height,
             format |-> format, path |-> path])

\* what save_with_format did: not called, wrote the file, or failed
save_with_format(image, path, format, encoded) ==
    IF ~IsOk(save_image_checks(image, path, format)) THEN "idle"
    ELSE IF encoded THEN "ok" ELSE "failed"

\* char::is_whitespace for the characters an answer line can hold
Whitespace == {" ", "\t", "\r", "\n"}

RECURSIVE trim_start(_)
trim_start(line) ==
    IF line # <<>> /\ Head(line) \in Whitespace THEN trim_start(Tail(line)) ELSE line

RECURSIVE trim_end(_)
trim_end(line) ==
    IF line # <<>> /\ line[Len(line)] \in Whitespace
    THEN trim_end(SubSeq(line, 1, Len(line) - 1))
    ELSE line

\* str::trim on a line given as its characters
trim(line) == trim_end(trim_start(line))

\* str::to_lowercase on a line given as its characters
to_lowercase_chars(line) == [i \in DOMAIN line |-> to_lowercase(line[i])]

\* faulty variant: the answer is compared as typed
check_if_path_exists_AsTyped(exists, line) ==
    IF exists = "Err" THEN Err(PathCheckFailed)
    ELSE IF exists = "true" /\ line # <<"y">> THEN Err(Cancelled)
    ELSE Ok("()")

\* check_if_path_exists; `exists` is what try_exists returned and `line` the
\* characters read_line returned
check_if_path_exists(exists, line) ==
    IF exists = "Err" THEN Err(PathCheckFailed)
    ELSE IF exists = "true" /\ to_lowercase_chars(trim(line)) # <<"y">> THEN Err(Cancelled)
    ELSE Ok("()")

\* the prompts check_if_path_exists prints, each followed by one read_line
prompts_printed(exists) == IF exists = "true" THEN 1 ELSE 0

\* faulty variant: run goes on after the overwrite gate whatever it returned
after_check_Ignored(r) == "confirmed"

\* the ? after check_if_path_exists in run
after_check(r) == IF IsOk(r) THEN "confirmed" ELSE "failed"

DecodeFailure == "Failed to decode image"

(***************************************************************************)
(* Inputs.                                                                 *)
(***************************************************************************)
Sources(n) == {[width |-> w, height |-> h] : w \in 0..n, h \in 0..n}

\* how a buffer's raw data may start: a format's signature, or plain pixels
Leads ==
    {JpegSig \o <<224>>, PngSig, Gif89aSig \o <<0, 0>>, BmpSig \o <<0, 0>>,
     <<0, 0, 0, 0, 0, 0, 0, 0>>, <<255, 255, 255, 255, 255, 255, 255, 255>>}

Buffers == {ImageBuffer(w, h, l) : w \in 0..MaxDim, h \in 0..MaxDim, l \in Leads}

Names ==
    {<<>>, <<"output">>, <<"output", "jpg">>, <<"output", "jpeg">>,
     <<"output", "png">>, <<"output", "JPG">>, <<"output", "gif">>,
     <<"output", "unknown">>, <<"photo", "v2", "png">>, <<"", "hidden">>}

Paths == {PathOf(<<"/", "a", "b">>, n) : n \in Names}

FormatStrings == {"jpeg", "jpg", "png", "PNG", "Jpeg", "gif"}

\* lines the operator may type (<<>>: end of input)
Answers ==
    {<<"y", "\n">>, <<"Y", "\n">>, <<" ", "y", " ", "\n">>, <<"n", "\n">>,
     <<"y", "e", "s", "\n">>, <<"\n">>, <<>>}

\* the arguments of a run: an existing image file, an optional output, and
\* an optional format out of the two the command line accepts
RunInputs ==
    {PathOf(<<"/", "a", "b">>, <<"photo", "jpg">>),
     PathOf(<<"/", "a", "b">>, <<"anim", "gif">>)}

RunOutputs ==
    {PathOf(<<>>, <<"output", "jpg">>),
     PathOf(<<"/", "nonexistent">>, <<"out", "png">>)}

RunFormats == {"jpeg", "png"}

(***************************************************************************)
(* The pipeline of run, and direct calls of the library's functions.       *)
(***************************************************************************)
NoImage == [width |-> 0, height |-> 0, raw |-> <<>>]
NoPath == PathOf(<<>>, <<>>)
NoOutcome == [fn |-> "", res |-> Ok("()")]
NoCheck == [exists |-> "", line |-> <<>>]

\* one call in the history: the function, how it ended, the path it was given
Call(fn, r, path) == [fn |-> fn, kind |-> r.kind, path |-> path]

Init ==
    /\ pc = "start"
    /\ img = [width |-> 0, height |-> 0]
    /\ width = None
    /\ height = None
    /\ dims = Err("")
    /\ resized_img = NoImage
    /\ output_path = NoPath
    /\ new_format = None
    /\ save_format = ""
    /\ new_output = NoPath
    /\ outcome = NoOutcome
    /\ written = {}
    /\ input = NoPath
    /\ output = None
    /\ dirs = BaseDirs
    /\ encoder = "idle"
    /\ prompts = 0
    /\ checked = NoCheck
    /\ calls = <<>>

\* run: the arguments are read, then determine_output_path(input, output)
DetermineOutputPath ==
    /\ pc = "start"
    /\ \E in \in RunInputs, out \in Opt(RunOutputs), format \in Opt(RunFormats) :
        LET r == determine_output_path(in, out, dirs) IN
        /\ input' = in
        /\ output' = out
        /\ new_format' = format
        /\ output_path' = IF IsOk(r) THEN r.val ELSE NoPath
        /\ outcome' = [fn |-> "determine_output_path", res |-> r]
        /\ calls' = Append(calls, Call("determine_output_path", r, in))
        /\ pc' = IF IsOk(r) THEN "pathed" ELSE "failed"
    /\ UNCHANGED <<img, width, height, dims, resized_img, save_format, new_output,
                   written, dirs, encoder, prompts, checked>>

\* run: ImageReader::open(input)?.decode()?
DecodeImage ==
    /\ pc = "pathed"
    /\ \E src \in Sources(MaxDim), decoded \in BOOLEAN :
        LET r == IF decoded THEN Ok("()") ELSE Err(DecodeFailure) IN
        /\ img' = IF decoded THEN src ELSE img
        /\ outcome' = [fn |-> "decode", res |-> r]
        /\ calls' = Append(calls, Call("decode", r, input))
        /\ pc' = IF decoded THEN "decoded" ELSE "failed"
    /\ UNCHANGED <<width, height, dims, resized_img, output_path, new_format,
                   save_format, new_output, written, cliVars, encoder, prompts,
                   checked>>

\* resize_image(img, width, height), on the decoded image or called directly;
\* run exits before this when neither side was requested
ResizeImage ==
    /\ pc \in {"start", "decoded"}
    /\ \E src \in (IF pc = "decoded" THEN {img} ELSE Sources(MaxDim)),
          w \in Opt(0..MaxDim), h \in Opt(0..MaxDim),
          lead \in Leads, resized \in BOOLEAN :
        LET r == resize_image(src, w, h, lead, resized) IN
        /\ pc = "decoded" => (IsSome(w) \/ IsSome(h))
        /\ img' = src
        /\ width' = w
        /\ height' = h
        /\ dims' = determine_new_dimensions(src, w, h)
        /\ resized_img' = IF IsOk(r) THEN r.val ELSE NoImage
        /\ outcome' = [fn |-> "resize_image", res |-> r]
        /\ calls' = Append(calls, Call("resize_image", r, input))
        /\ pc' = IF pc = "start" THEN "returned"
                 ELSE IF IsOk(r) THEN "resized"
                 ELSE IF IsPanic(r) THEN "panicked" ELSE "failed"
    /\ UNCHANGED <<output_path, new_format, save_format, new_output, written,
                   cliVars, encoder, prompts, checked>>

\* determine_save_format_and_path, on the resized image, the output path and
\* the format of the run, or called directly
DetermineSaveFormatAndPath ==
    /\ pc \in {"start", "resized"}
    /\ \E image \in (IF pc = "resized" THEN {resized_img} ELSE Buffers),
          path \in (IF pc = "resized" THEN {output_path} ELSE Paths),
          format \in (IF pc = "resized" THEN {new_format} ELSE Opt(FormatStrings)) :
        LET r == determine_save_format_and_path(image, path, format) IN
        /\ resized_img' = image
        /\ output_path' = path
        /\ new_format' = format
        /\ save_format' = IF IsOk(r) THEN r.val[1] ELSE ""
        /\ new_output' = IF IsOk(r) THEN r.val[2] ELSE NoPath
        /\ outcome' = [fn |-> "determine_save_format_and_path", res |-> r]
        /\ calls' = Append(calls, Call("determine_save_format_and_path", r, path))
        /\ pc' = IF pc = "start" THEN "returned"
                 ELSE IF IsOk(r) THEN "resolved" ELSE "failed"
    /\ UNCHANGED <<img, width, height, dims, written, cliVars, encoder, prompts,
                   checked>>

\* check_if_path_exists(new_output)
CheckIfPathExists ==
    /\ pc = "resolved"
    /\ \E exists \in {"true", "false", "Err"} :
       \E line \in (IF exists = "true" THEN Answers ELSE {<<>>}) :
        LET r == check_if_path_exists(exists, line) IN
        /\ outcome' = [fn |-> "check_if_path_exists", res |-> r]
        /\ prompts' = prompts + prompts_printed(exists)
        /\ checked' = [exists |-> exists, line |-> line]
        /\ calls' = Append(calls, Call("check_if_path_exists", r, new_output))
        /\ pc' = after_check(r)
    /\ UNCHANGED <<img, width, height, dims, resized_img, output_path, new_format,
                   save_format, new_output, written, cliVars, encoder>>

\* save_image, on the pipeline's image, path and format or called directly
SaveImage ==
    /\ pc \in {"start", "confirmed"}
    /\ \E image \in (IF pc = "confirmed" THEN {resized_img} ELSE Buffers),
          path \in (IF pc = "confirmed" THEN {new_output} ELSE Paths),
          format \in (IF pc = "confirmed" THEN {save_format} ELSE {"Jpeg", "Png", "Gif"}),
          encoded \in BOOLEAN :
        LET r == save_image(image, path, format, encoded) IN
        /\ resized_img' = image
        /\ new_output' = path
        /\ save_format' = format
        /\ outcome' = [fn |-> "save_image", res |-> r]
        /\ encoder' = save_with_format(image, path, format, encoded)
        /\ written' = IF IsOk(r) THEN written \cup {path} ELSE written
        /\ calls' = Append(calls, Call("save_image", r, path))
        /\ pc' = IF pc = "start" THEN "returned"
                 ELSE IF IsOk(r) THEN "saved" ELSE "failed"
    /\ UNCHANGED <<img, width, height, dims, output_path, new_format, cliVars,
                   prompts, checked>>

Next ==
    \/ DetermineOutputPath
    \/ DecodeImage
    \/ ResizeImage
    \/ DetermineSaveFormatAndPath
    \/ CheckIfPathExists
    \/ SaveImage

Spec == Init /\ [][Next]_vars

(***************************************************************************)
(* The dimension resolver alone, over a wider range of sizes.              *)
(***************************************************************************)
DimInit ==
    /\ pc = "resolve"
    /\ img \in Sources(MaxSide)
    /\ width \in Opt(0..MaxSide)
    /\ height \in Opt(0..MaxSide)
    /\ dims = Err("")
    /\ resized_img = NoImage
    /\ output_path = NoPath
    /\ new_format = None
    /\ save_format = ""
    /\ new_output = NoPath
    /\ outcome = NoOutcome
    /\ written = {}
    /\ input = NoPath
    /\ output = None
    /\ dirs = BaseDirs
    /\ encoder = "idle"
    /\ prompts = 0
    /\ checked = NoCheck
    /\ calls = <<>>

\* determine_new_dimensions(&img, width, height)
DetermineNewDimensions ==
    /\ pc = "resolve"
    /\ dims' = determine_new_dimensions(img, width, height)
    /\ pc' = "resolved_dims"
    /\ UNCHANGED <<img, width, height, resized_img, output_path, new_format,
                   save_format, new_output, outcome, written, cliVars, gateVars>>

\* the rest of ImageContainer::new and of resize_image
ResizeResolved ==
    /\ pc = "resolved_dims"
    /\ \E resized \in BOOLEAN :
        LET r == resize_image(img, width, height, <<0, 0, 0, 0>>, resized) IN
        /\ resized_img' = IF IsOk(r) THEN r.val ELSE NoImage
        /\ outcome' = [fn |-> "resize_image", res |-> r]
        /\ pc' = IF IsOk(r) THEN "resized" ELSE IF IsPanic(r) THEN "panicked" ELSE "failed"
    /\ UNCHANGED <<img, width, height, dims, output_path, new_format, save_format,
                   new_output, written, cliVars, gateVars>>

DimNext == DetermineNewDimensions \/ ResizeResolved

DimSpec == DimInit /\ [][DimNext]_vars

(***************************************************************************)
(* Output path determination alone, over more paths and directories.       *)
(***************************************************************************)
InputPaths ==
    {PathOf(<<"/", "a", "b">>, <<"photo", "jpg">>),
     PathOf(<<"/", "a", "b">>, <<"photo", "v2", "jpg">>),
     PathOf(<<"/", "a", "b">>, <<"photo">>),
     PathOf(<<"/", "a", "b">>, <<"anim", "gif">>),
     PathOf(<<>>, <<"photo", "png">>)}

UserOutputs ==
    {PathOf(<<>>, <<"out", "png">>), PathOf(<<>>, <<"out", "jpg">>),
     PathOf(<<>>, <<"out", "jpeg">>), PathOf(<<>>, <<"out", "gif">>),
     PathOf(<<>>, <<"out", "PNG">>), PathOf(<<>>, <<"out">>),
     PathOf(<<>>, <<"out", "v2", "png">>), PathOf(<<>>, <<"out", "">>),
     PathOf(<<".">>, <<"out", "png">>), PathOf(<<"sub">>, <<"out", "png">>),
     PathOf(<<"/", "tmp">>, <<"out", "png">>),
     PathOf(<<"/", "tmp">>, <<"out", "v2", "png">>),
     PathOf(<<"/", "tmp">>, <<"out">>),
     PathOf(<<"/", "nonexistent">>, <<"out", "jpeg">>),
     PathOf(<<"/", "nonexistent">>, <<"out", "gif">>)}

PathInit ==
    /\ pc = "path"
    /\ input \in InputPaths
    /\ output \in Opt(UserOutputs)
    /\ dirs \in {BaseDirs \cup d : d \in SUBSET OptionalDirs}
    /\ img = [width |-> 0, height |-> 0]
    /\ width = None
    /\ height = None
    /\ dims = Err("")
    /\ resized_img = NoImage
    /\ output_path = NoPath
    /\ new_format = None
    /\ save_format = ""
    /\ new_output = NoPath
    /\ outcome = NoOutcome
    /\ written = {}
    /\ encoder = "idle"
    /\ prompts = 0
    /\ checked = NoCheck
    /\ calls = <<>>

\* determine_output_path(input, output)
ApplyDetermineOutputPath ==
    /\ pc = "path"
    /\ LET r == determine_output_path(input, output, dirs) IN
        /\ output_path' = IF IsOk(r) THEN r.val ELSE NoPath
        /\ outcome' = [fn |-> "determine_output_path", res |-> r]
        /\ pc' = IF IsOk(r) THEN "pathed" ELSE "failed"
    /\ UNCHANGED <<img, width, height, dims, resized_img, new_format, save_format,
                   new_output, written, cliVars, gateVars>>

PathNext == ApplyDetermineOutputPath

PathSpec == PathInit /\ [][PathNext]_vars

(***************************************************************************)
(* Properties.                                                             *)
(***************************************************************************)
\* what a format name or an extension stands for, case-insensitively
FormatOfName(s) ==
    CASE s \in {"jpeg", "jpg", "JPEG", "JPG", "Jpeg"} -> "Jpeg"
      [] s \in {"png", "PNG", "Png"} -> "Png"
      [] OTHER -> "none"

\* extensions that belong to an image format other than JPEG and PNG
OtherFormatExtensions == {"gif", "bmp", "ico", "webp", "tiff", "tif"}

AfterResolve == outcome.fn = "determine_save_format_and_path"
AfterResize == outcome.fn = "resize_image"
Resolved == AfterResolve /\ IsOk(outcome.res)
HasName(path) == path.name # <<>>
ExtensionIs(path, S) == IsSome(extension(path)) /\ Unwrap(extension(path)) \in S
LeadIs(sig) == starts_with(resized_img.raw, sig)
NoSignature ==
    \A sig \in {PngSig, JpegSig, Gif89aSig, Gif87aSig, BmpSig, IcoSig} : ~LeadIs(sig)

\* C1: an explicit format that names JPEG or PNG decides the format, whatever
\* the path's extension and the buffer's leading bytes; explicit "png" with
\* output.jpg gives (PNG, output.png).
C1_ExplicitFormatWins ==
    (AfterResolve /\ IsSome(new_format) /\ FormatOfName(Unwrap(new_format)) # "none")
    => /\ IsOk(outcome.res)
       /\ outcome.res.val[1] = FormatOfName(Unwrap(new_format))
       /\ (new_format = Some("png") /\ output_path.name = <<"output", "jpg">>)
            => outcome.res.val = <<"Png", PathOf(output_path.parent, <<"output", "png">>)>>

C1_Witness ==
    /\ AfterResolve
    /\ new_format = Some("png")
    /\ output_path.name = <<"output", "jpg">>
    /\ LeadIs(JpegSig)
    /\ outcome.res = Ok(<<"Png", PathOf(<<"/", "a", "b">>, <<"output", "png">>)>>)

\* C2 as claimed: with no explicit format, a recognised extension of the path
\* decides the format for every buffer content.
C2_ExtensionBeforeSniffing ==
    (AfterResolve /\ new_format = None
        /\ ExtensionIs(output_path, {"jpeg", "jpg", "png"}))
    => /\ IsOk(outcome.res)
       /\ outcome.res.val[1] = FormatOfName(Unwrap(extension(output_path)))

\* C2 amended: with no explicit format the leading bytes are sniffed first: a
\* buffer that starts with the JPEG or the PNG signature resolves to that
\* format whatever the path's extension, and a recognised extension decides
\* the format only when the leading bytes match no signature.
C2_SniffingBeforeExtension ==
    (AfterResolve /\ new_format = None)
    => /\ LeadIs(PngSig) => (IsOk(outcome.res) /\ outcome.res.val[1] = "Png")
       /\ LeadIs(JpegSig) => (IsOk(outcome.res) /\ outcome.res.val[1] = "Jpeg")
       /\ (NoSignature /\ IsSome(extension(output_path))
            /\ FormatOfName(Unwrap(extension(output_path))) # "none")
          => (IsOk(outcome.res)
                /\ outcome.res.val[1] = FormatOfName(Unwrap(extension(output_path))))

C2_Witness ==
    /\ AfterResolve
    /\ new_format = None
    /\ LeadIs(PngSig)
    /\ output_path.name = <<"output", "jpg">>
    /\ outcome.res = Ok(<<"Png", PathOf(<<"/", "a", "b">>, <<"output", "png">>)>>)

\* C3: the resolved format is JPEG or PNG; an explicit format that names
\* neither, and with no explicit format a detected format that is neither,
\* is an UnsupportedFormat error, never coerced.
C3_ClosedFormatSet ==
    AfterResolve
    => /\ IsOk(outcome.res) => outcome.res.val[1] \in {"Jpeg", "Png"}
       /\ (IsSome(new_format) /\ FormatOfName(Unwrap(new_format)) = "none")
            => outcome.res = Err(UnsupportedFormat)
       /\ (new_format = None /\ (LeadIs(Gif89aSig) \/ LeadIs(BmpSig)))
            => outcome.res = Err(UnsupportedConversion)
       /\ (new_format = None /\ NoSignature
            /\ ExtensionIs(output_path, OtherFormatExtensions))
            => outcome.res = Err(UnsupportedConversion)

C3_Witness ==
    /\ AfterResolve
    /\ new_format = None
    /\ LeadIs(Gif89aSig)
    /\ output_path.name = <<"output", "png">>
    /\ outcome.res = Err(UnsupportedConversion)

\* C4 as claimed: with no explicit format, an extension other than jpeg / jpg /
\* png (also another format's, such as gif) and leading bytes that match no
\* signature, the resolution succeeds with JPEG.
C4_FallbackForEveryOtherExtension ==
    (AfterResolve /\ new_format = None /\ NoSignature
        /\ (IsSome(extension(output_path))
            => FormatOfName(Unwrap(extension(output_path))) = "none"))
    => (IsOk(outcome.res) /\ outcome.res.val[1] = "Jpeg")

\* C4 amended: with no explicit format and leading bytes that match no
\* signature, the resolution succeeds with JPEG when the path has no extension
\* or one that belongs to no image format (such as "unknown"); an extension of
\* another image format (such as "gif") is an UnsupportedFormat error.
C4_FallbackForUnknownExtension ==
    (AfterResolve /\ new_format = None /\ NoSignature)
    => /\ (~IsSome(extension(output_path))
            \/ (FormatOfName(Unwrap(extension(output_path))) = "none"
                /\ Unwrap(extension(output_path)) \notin OtherFormatExtensions))
          => (IsOk(outcome.res) /\ outcome.res.val[1] = "Jpeg")
       /\ ExtensionIs(output_path, OtherFormatExtensions)
          => outcome.res = Err(UnsupportedConversion)

C4_Witness ==
    /\ AfterResolve
    /\ new_format = None
    /\ NoSignature
    /\ resized_img.width > 0
    /\ output_path.name = <<"output", "unknown">>
    /\ outcome.res = Ok(<<"Jpeg", PathOf(<<"/", "a", "b">>, <<"output", "jpg">>)>>)

\* C5: for a path with a file name, the returned path's extension is not empty
\* and maps to the returned format (jpg / jpeg with JPEG, png with PNG); so in
\* the pipeline save_image never fails on the extension of that pair.
C5_ExtensionConsistent ==
    /\ (Resolved /\ HasName(output_path))
       => LET ext == extension(outcome.res.val[2]) IN
          /\ IsSome(ext)
          /\ Unwrap(ext) # ""
          /\ \/ (Unwrap(ext) \in {"jpg", "jpeg"} /\ outcome.res.val[1] = "Jpeg")
             \/ (Unwrap(ext) = "png" /\ outcome.res.val[1] = "Png")
    /\ (outcome.fn = "save_image" /\ pc \in {"saved", "failed"} /\ HasName(output_path)
            /\ IsErr(outcome.res))
       => outcome.res.err \notin {IncompatibleExtension, NoExtension, UnsupportedFormat}

C5_Witness ==
    /\ outcome.fn = "save_image"
    /\ pc = "saved"
    /\ output_path.name = <<"output", "jpg">>
    /\ new_format = Some("png")
    /\ new_output.name = <<"output", "png">>
    /\ save_format = "Png"

\* C6: with both sides requested the resolver returns exactly the requested
\* sides, with no adjustment toward the source's aspect ratio.
C6_BothGivenPassthrough ==
    (pc # "resolve" /\ IsSome(width) /\ IsSome(height))
    => dims = Ok(<<Unwrap(width), Unwrap(height)>>)

C6_Witness ==
    /\ pc = "resolved_dims"
    /\ img = [width |-> 2, height |-> 1]
    /\ width = Some(3)
    /\ height = Some(5)
    /\ dims = Ok(<<3, 5>>)

\* C7: with neither side requested the resolver returns the MissingDimension
\* error for every source size, zero-sized ones included, and resize_image
\* returns that error.
C7_NeitherGivenFails ==
    (width = None /\ height = None)
    => /\ pc # "resolve" => dims = Err(MissingDimension)
       /\ AfterResize => outcome.res = Err(MissingDimension)

C7_Witness ==
    /\ AfterResize
    /\ img = [width |-> 0, height |-> 0]
    /\ width = None
    /\ height = None
    /\ outcome.res = Err(MissingDimension)

\* C8: for a source with both sides positive and a positive requested width
\* alone, the resolved sides are (rw, rw * h / w truncated), the quotient being
\* exact; symmetrically for a requested height alone.
C8_ExactTruncatedAspect ==
    (pc # "resolve" /\ img.width > 0 /\ img.height > 0)
    => /\ (IsSome(width) /\ height = None /\ Unwrap(width) > 0)
          => dims = Ok(<<Unwrap(width), (Unwrap(width) * img.height) \div img.width>>)
       /\ (IsSome(height) /\ width = None /\ Unwrap(height) > 0)
          => dims = Ok(<<(Unwrap(height) * img.width) \div img.height, Unwrap(height)>>)

\* C9: for a source with a zero side and at least one side requested,
\* resize_image returns an error value; it does not panic.
C9_DegenerateSourceIsError ==
    (AfterResize /\ (img.width = 0 \/ img.height = 0)
        /\ (IsSome(width) \/ IsSome(height)))
    => IsErr(outcome.res)

\* C10: when a resolved side is 0 (computed or requested) on a source with
\* both sides positive, resize_image returns normally (Ok or Err); it does not
\* panic.
C10_ZeroSideReturns ==
    (AfterResize /\ img.width > 0 /\ img.height > 0 /\ IsOk(dims)
        /\ (dims.val[1] = 0 \/ dims.val[2] = 0))
    => ~IsPanic(outcome.res)

AfterOutputPath == outcome.fn = "determine_output_path"

\* whether the directory part of a path exists ("" is the working directory)
DirExists(d) == d = <<>> \/ is_dir(d, dirs)

\* C13: with no user output, the path is <parent>/<stem>_resized.<extension>
\* for every stem of the input, stems with dots in them included.
C13_DefaultNaming ==
    (AfterOutputPath /\ output = None /\ IsSome(extension(input)))
    => outcome.res =
         Ok(PathOf(input.parent,
                   Append(resized_stem(file_stem(input)), Unwrap(extension(input)))))

\* C14: an absolute user output whose directory exists and whose extension is
\* jpeg, jpg or png is returned exactly as given, names with dots in the stem
\* included.
C14_AbsoluteVerbatim ==
    (AfterOutputPath /\ IsSome(output) /\ is_absolute(Unwrap(output))
        /\ is_dir(Unwrap(output).parent, dirs)
        /\ ExtensionIs(Unwrap(output), {"jpeg", "jpg", "png"}))
    => outcome.res = Ok(Unwrap(output))

\* C15: an accepted relative user output (a bare file name, or one after "./")
\* is returned as the input's parent directory joined with it, the file name
\* as the user gave it.
C15_RelativeBesideInput ==
    (AfterOutputPath /\ IsSome(output) /\ Unwrap(output).parent \in {<<>>, <<".">>}
        /\ ExtensionIs(Unwrap(output), {"jpeg", "jpg", "png"}))
    => outcome.res = Ok(PathOf(input.parent, Unwrap(output).name))

\* C16 as claimed: a user output with a trailing extension other than jpeg,
\* jpg, png is the InvalidExtension error; one with such an extension or none,
\* in an existing or empty directory, is never that error.
C16_InvalidExtensionAlways ==
    (AfterOutputPath /\ IsSome(output))
    => /\ (IsSome(extension(Unwrap(output)))
            /\ Unwrap(extension(Unwrap(output))) \notin {"jpeg", "jpg", "png", ""})
          => outcome.res = Err(InvalidExtension)
       /\ ((~IsSome(extension(Unwrap(output)))
              \/ ExtensionIs(Unwrap(output), {"jpeg", "jpg", "png"}))
            /\ DirExists(Unwrap(output).parent))
          => outcome.res # Err(InvalidExtension)

\* C16 amended: a user output with a trailing extension other than jpeg, jpg,
\* png is an error and gives no path: InvalidExtension when its directory
\* exists or is empty, DirectoryNotFound when its directory does not exist;
\* one with such an extension or none, in an existing or empty directory, is
\* never the InvalidExtension error.
C16_InvalidExtensionAfterDirectory ==
    (AfterOutputPath /\ IsSome(output))
    => /\ (IsSome(extension(Unwrap(output)))
            /\ Unwrap(extension(Unwrap(output))) \notin {"jpeg", "jpg", "png", ""})
          => /\ output_path = NoPath
             /\ outcome.res = IF DirExists(Unwrap(output).parent)
                              THEN Err(InvalidExtension)
                              ELSE Err(DirectoryNotFound)
       /\ ((~IsSome(extension(Unwrap(output)))
              \/ ExtensionIs(Unwrap(output), {"jpeg", "jpg", "png"}))
            /\ DirExists(Unwrap(output).parent))
          => outcome.res # Err(InvalidExtension)

C16_Witness ==
    /\ AfterOutputPath
    /\ output = Some(PathOf(<<"/", "nonexistent">>, <<"out", "gif">>))
    /\ outcome.res = Err(DirectoryNotFound)

\* where a returned path's directory is looked up: a relative one lies under
\* the working directory
ReturnedDirExists(path) == path.parent = <<>> \/ is_dir(path.parent, dirs)

\* C19: a returned path for a user output lies in an existing directory; a
\* relative output with a directory part is rejected with DirectoryNotFound
\* exactly when that directory does not exist under the input's parent.
C19_ReturnedDirectoryExists ==
    (AfterOutputPath /\ IsSome(output) /\ DirExists(input.parent))
    => /\ IsOk(outcome.res) => ReturnedDirExists(outcome.res.val)
       /\ (~is_absolute(Unwrap(output))
            /\ ExtensionIs(Unwrap(output), {"jpeg", "jpg", "png"}))
          => (outcome.res = Err(DirectoryNotFound)
                <=> ~ReturnedDirExists(join(input.parent, Unwrap(output))))

AfterSave == outcome.fn = "save_image"

\* C11: the encoder is called only for a buffer with both sides positive and a
\* path whose extension maps to the save format; a zero side is the Empty image
\* buffer error whatever the path, then a missing extension, an unsupported
\* one and one of another format are errors, and in all of them the encoder is
\* not called and no file is written.
C11_ValidateBeforeWrite ==
    AfterSave
    => LET ext == extension(new_output)
           zero == resized_img.width = 0 \/ resized_img.height = 0
       IN /\ encoder # "idle"
             => /\ ~zero
                /\ IsSome(ext)
                /\ FormatOfName(Unwrap(ext)) = save_format
          /\ zero => outcome.res = Err(EmptyBuffer)
          /\ (~zero /\ ~IsSome(ext)) => outcome.res = Err(NoExtension)
          /\ (~zero /\ IsSome(ext) /\ FormatOfName(Unwrap(ext)) = "none")
             => outcome.res = Err(UnsupportedFormat)
          /\ (~zero /\ IsSome(ext) /\ FormatOfName(Unwrap(ext)) \notin {"none", save_format})
             => outcome.res = Err(IncompatibleExtension)
          /\ (zero \/ ~IsSome(ext) \/ FormatOfName(Unwrap(ext)) # save_format)
             => (encoder = "idle" /\ written = {})

C11_Witness ==
    /\ AfterSave
    /\ resized_img.width = 0
    /\ resized_img.height > 0
    /\ new_output.name = <<"output">>
    /\ outcome.res = Err(EmptyBuffer)
    /\ encoder = "idle"
    /\ written = {}

\* C12: an Ok result of save_image carries the buffer's width and height, the
\* save format and the output path it was given; a failed write is the Failed
\* to save image error and gives no result.
C12_ResultMetadata ==
    AfterSave
    => /\ IsOk(outcome.res)
          => /\ outcome.res.val = [width |-> resized_img.width,
                                   height |-> resized_img.height,
                                   format |-> save_format, path |-> new_output]
             /\ encoder = "ok"
       /\ encoder = "failed" => outcome.res = Err(EncodeFailure)

C12_Witness ==
    /\ AfterSave
    /\ resized_img.width = 1
    /\ resized_img.height = 2
    /\ outcome.res = Ok([width |-> 1, height |-> 2, format |-> "Png",
                         path |-> PathOf(<<"/", "a", "b">>, <<"output", "png">>)])

AfterCheck == outcome.fn = "check_if_path_exists"

\* the lines that, trimmed and lower-cased, are exactly "y"
AffirmativeLines == {<<"y", "\n">>, <<"Y", "\n">>, <<" ", "y", " ", "\n">>}

\* C17: check_if_path_exists is Ok with no prompt when the path does not
\* exist; when it exists there is exactly one prompt and the result is Ok only
\* for an answer that, trimmed and compared case-insensitively, is "y", and
\* Cancelled for any other; a failed existence check is PathCheckFailed with
\* no prompt.
C17_OverwriteGate ==
    AfterCheck
    => /\ checked.exists = "false" => (IsOk(outcome.res) /\ prompts = 0)
       /\ checked.exists = "true"
          => /\ prompts = 1
             /\ outcome.res = IF checked.line \in AffirmativeLines
                              THEN Ok("()") ELSE Err(Cancelled)
       /\ checked.exists = "Err" => (outcome.res = Err(PathCheckFailed) /\ prompts = 0)

C17_Witness ==
    /\ AfterCheck
    /\ checked = [exists |-> "true", line |-> <<" ", "y", " ", "\n">>]
    /\ prompts = 1
    /\ IsOk(outcome.res)

\* the history is that of a run
InRun == calls # <<>> /\ calls[1].fn = "determine_output_path"

\* C18: in a run save_image is called at most once, and right after
\* check_if_path_exists returned Ok for the path save_image is given; when the
\* file exists and the operator declines, the run ends with Cancelled, with no
\* call of save_image and nothing written; a stage that did not return Ok is
\* the last one.
C18_NoClobberWithoutConsent ==
    InRun
    => /\ Cardinality({i \in DOMAIN calls : calls[i].fn = "save_image"}) <= 1
       /\ \A i \in DOMAIN calls :
            calls[i].fn = "save_image"
            => /\ i > 1
               /\ calls[i - 1] = Call("check_if_path_exists", Ok("()"), calls[i].path)
       /\ \A i \in DOMAIN calls : i < Len(calls) => calls[i].kind = "Ok"
       /\ (checked.exists = "true" /\ checked.line \notin AffirmativeLines)
          => /\ calls[Len(calls)] = Call("check_if_path_exists", Err(Cancelled), new_output)
             /\ outcome.res = Err(Cancelled)
             /\ encoder = "idle"
             /\ written = {}

C18_Witness ==
    /\ InRun
    /\ checked = [exists |-> "true", line |-> <<"n", "\n">>]
    /\ outcome.res = Err(Cancelled)
    /\ pc = "failed"
    /\ written = {}

\* the path is one determine_save_format_and_path leaves as it is
KeepsExtension ==
    \/ (outcome.res.val[1] = "Jpeg" /\ ExtensionIs(output_path, {"jpg", "jpeg"}))
    \/ (outcome.res.val[1] = "Png" /\ ExtensionIs(output_path, {"png"}))

\* C20 as claimed: determine_save_format_and_path keeps the parent and the
\* stem; it returns the path unchanged when the extension is jpg / jpeg with
\* JPEG or png with PNG, and for every other path the returned extension is
\* the format's canonical one; applied again to its result it returns the same.
C20_MinimalIdempotentEveryPath ==
    Resolved
    => LET path == outcome.res.val[2] IN
       /\ path.parent = output_path.parent
       /\ file_stem(path) = file_stem(output_path)
       /\ KeepsExtension => path = output_path
       /\ ~KeepsExtension
          => extension(path) = Some(IF outcome.res.val[1] = "Jpeg" THEN "jpg" ELSE "png")
       /\ determine_save_format_and_path(resized_img, path, new_format) = outcome.res

\* C20 amended: as above, but the extension becomes the canonical one only for
\* a path that has a file name; a path with no file name is returned unchanged.
C20_MinimalIdempotent ==
    Resolved
    => LET path == outcome.res.val[2] IN
       /\ path.parent = output_path.parent
       /\ file_stem(path) = file_stem(output_path)
       /\ (KeepsExtension \/ ~HasName(output_path)) => path = output_path
       /\ (~KeepsExtension /\ HasName(output_path))
          => extension(path) = Some(IF outcome.res.val[1] = "Jpeg" THEN "jpg" ELSE "png")
       /\ determine_save_format_and_path(resized_img, path, new_format) = outcome.res

C20_Witness ==
    /\ Resolved
    /\ output_path = PathOf(<<"/", "a", "b">>, <<>>)
    /\ new_format = Some("png")
    /\ outcome.res = Ok(<<"Png", PathOf(<<"/", "a", "b">>, <<>>)>>)

====
